---- MODULE Spec2Model ----
(***************************************************************************)
(* Model of voicemail_to_email_simple_hyperlink.py: the signed-link codec  *)
(* and the link-resolution handler (SpecLink), the recording-processing    *)
(* handler with its recording locator (SpecProc), and the transcript       *)
(* preview compiler (SpecPreview); SpecCore is lambda_handler, which runs  *)
(* either of the two handlers.                                             *)
(*                                                                         *)
(* Strings that the code parses, concatenates or percent-decodes are       *)
(* modelled as sequences of one-character strings.  HMAC-SHA256 is         *)
(* modelled as a collision-free keyed digest: the digest of (secret,       *)
(* message) is the record of the two, so two digests are equal exactly     *)
(* when secret and message are equal.                                      *)
(***************************************************************************)
EXTENDS Integers, Sequences, FiniteSets, TLC

VARIABLES
    now,        \* time.time(), whole seconds
    secret,     \* os.environ SIGNING_SECRET
    store,      \* object store: the set of <<bucket, key>> that exist
    issued,     \* the link generate_signed_url produced last (none before the first)
    inflight,   \* link-resolution request being answered, with its response
    jobs,       \* transcription service: the names of the jobs that exist
    proc,       \* state of one recording-processing invocation
    preview     \* a transcription result and the preview compiled from it

vars == <<now, secret, store, issued, inflight, jobs, proc, preview>>

----------------------------------------------------------------------------
(* Bounds *)

MaxHours == 1       \* the clock runs over 0..MaxHours whole hours ...
MaxSecs == 1        \* ... plus 0..MaxSecs seconds
MaxItems == 2       \* a channel or a token stream has 0..MaxItems items

(* Program constants *)

HourSecs == 3600
PresignTtl == 3600
PrefixLen == 11
TRANSCRIBE_MAX_WAIT_SECS == 600
TRANSCRIBE_POLL_SECS == 3
MAX_TIME_WINDOW_MINUTES == 5
DefaultUrlExpiration == 604800
DefaultRecordingWaitTime == 70
SearchAttempts == 2
SearchBackoffSecs == 30
MinuteSecs == 60

----------------------------------------------------------------------------
(* Character-sequence helpers (Python str operations used by the code) *)

Digits == <<"0", "1", "2", "3", "4", "5", "6", "7", "8", "9">>

DigitSet == {Digits[i] : i \in 1..10}

DigitVal(c) == (CHOOSE i \in 1..10 : Digits[i] = c) - 1

\* str.startswith
StartsWith(s, p) == Len(s) >= Len(p) /\ SubSeq(s, 1, Len(p)) = p

\* c in s
Contains(s, c) == \E i \in 1..Len(s) : s[i] = c

\* s.find(c) as a 1-based index (0 when absent)
IndexOf(s, c) ==
    IF Contains(s, c)
    THEN CHOOSE i \in 1..Len(s) : s[i] = c /\ \A j \in 1..(i - 1) : s[j] # c
    ELSE 0

\* s[n:]
DropFirst(s, n) == SubSeq(s, n + 1, Len(s))

RECURSIVE StripLeft(_)
StripLeft(s) == IF s # <<>> /\ Head(s) = " " THEN StripLeft(Tail(s)) ELSE s

RECURSIVE StripRight(_)
StripRight(s) ==
    IF s # <<>> /\ s[Len(s)] = " " THEN StripRight(SubSeq(s, 1, Len(s) - 1)) ELSE s

RECURSIVE DigitsValue(_)
DigitsValue(s) ==
    IF s = <<>> THEN 0
    ELSE LET c == s[Len(s)]
             rest == SubSeq(s, 1, Len(s) - 1)
         IN IF c = "_" THEN DigitsValue(rest)
            ELSE 10 * DigitsValue(rest) + DigitVal(c)

\* the digit part int() accepts: digits, single underscores between digits
IsIntBody(s) ==
    /\ s # <<>>
    /\ \A i \in 1..Len(s) : s[i] \in DigitSet \cup {"_"}
    /\ s[1] # "_" /\ s[Len(s)] # "_"
    /\ \A i \in 1..(Len(s) - 1) : ~(s[i] = "_" /\ s[i + 1] = "_")

\* int(text): [ok |-> FALSE] stands for ValueError
IntParse(text) ==
    LET t == StripRight(StripLeft(text))
        signed == t # <<>> /\ t[1] \in {"+", "-"}
        body == IF signed THEN Tail(t) ELSE t
    IN IF IsIntBody(body)
       THEN [ok |-> TRUE,
             val |-> IF signed /\ t[1] = "-" THEN 0 - DigitsValue(body)
                     ELSE DigitsValue(body)]
       ELSE [ok |-> FALSE, val |-> 0]

RECURSIVE NatToStr(_)
NatToStr(n) ==
    IF n < 10 THEN <<Digits[n + 1]>>
    ELSE NatToStr(n \div 10) \o <<Digits[(n % 10) + 1]>>

\* f"{n}" for an int
IntToStr(n) == IF n < 0 THEN <<"-">> \o NatToStr(0 - n) ELSE NatToStr(n)

----------------------------------------------------------------------------
(* urllib.parse.quote(key, safe='') and unquote *)

Unreserved == {"k", "_", ".", "-", "~"} \cup DigitSet

\* the %XX escape of the reserved characters of the model's alphabet
EscapeOf(c) ==
    CASE c = ":" -> <<"%", "3", "A">>
      [] c = "/" -> <<"%", "2", "F">>
      [] c = "%" -> <<"%", "2", "5">>
      [] c = " " -> <<"%", "2", "0">>
      [] OTHER -> <<c>>

RECURSIVE Quote(_)
Quote(s) ==
    IF s = <<>> THEN <<>>
    ELSE (IF Head(s) \in Unreserved THEN <<Head(s)>> ELSE EscapeOf(Head(s)))
         \o Quote(Tail(s))

HexDigits == DigitSet \cup {"A", "F", "a", "f"}

\* the character a %XX escape stands for, over the escapes of the alphabet
Unescape(h1, h2) ==
    CASE h1 = "3" /\ h2 \in {"A", "a"} -> ":"
      [] h1 = "2" /\ h2 \in {"F", "f"} -> "/"
      [] h1 = "2" /\ h2 = "5" -> "%"
      [] h1 = "2" /\ h2 = "0" -> " "
      [] h1 = "3" /\ h2 \in DigitSet -> h2
      [] OTHER -> "?"

RECURSIVE Unquote(_)
Unquote(s) ==
    IF s = <<>> THEN <<>>
    ELSE IF Head(s) = "%" /\ Len(s) >= 3 /\ s[2] \in HexDigits /\ s[3] \in HexDigits
         THEN <<Unescape(s[2], s[3])>> \o Unquote(DropFirst(s, 3))
         ELSE <<Head(s)>> \o Unquote(Tail(s))

----------------------------------------------------------------------------
(* URL signing functions *)

\* hmac.new(secret_key.encode(), message.encode(), hashlib.sha256).hexdigest()
HmacHex(secret_key, message) ==
    [kind |-> "hex", secret |-> secret_key, msg |-> message]

\* mutant: the key is left out of the signed message
MessageWithoutKey(bucket, key, expires) == bucket \o <<":">> \o expires

\* f"{bucket}:{key}:{expires}"
Message(bucket, key, expires) == bucket \o <<":">> \o key \o <<":">> \o expires

\* hmac.compare_digest(a, b): a str argument that is not ASCII raises TypeError
CompareDigest(a, b) ==
    IF a.kind = "nonascii" \/ b.kind = "nonascii" THEN "TypeError"
    ELSE IF a = b THEN "equal" ELSE "different"

\* mutant: the presented signature is compared with itself
verify_signature_self(bucket, key, expires, signature, secret_key) ==
    CompareDigest(signature, signature)

verify_signature(bucket, key, expires, signature, secret_key) ==
    CompareDigest(signature, HmacHex(secret_key, Message(bucket, key, expires)))

VoicemailPrefix == <<"/", "v", "o", "i", "c", "e", "m", "a", "i", "l", "/">>

\* the link generate_signed_url returns at time t, as the parts of its URL
generate_signed_url(bucket, key, secret_key, validity_hours, t) ==
    LET expires == t + (validity_hours * HourSecs)
        signature == HmacHex(secret_key, Message(bucket, key, IntToStr(expires)))
    IN [bucket |-> bucket, key |-> key, expires |-> expires,
        secret |-> secret_key, issuedAt |-> t,
        rawPath |-> VoicemailPrefix \o bucket \o <<"/">> \o Quote(key),
        query |-> [expires |-> [present |-> TRUE, val |-> IntToStr(expires)],
                   signature |-> [present |-> TRUE, val |-> signature]]]

----------------------------------------------------------------------------
(* Function URL handler *)

Html(status, text) == [statusCode |-> status, body |-> text]

Reply(response, callLog) == [response |-> response, calls |-> callLog]

\* lines 377-415: existence check, then the presigned URL and the redirect
ResolveObject(bucket, key, headOutcome, presignOutcome) ==
    IF headOutcome = "404"
    THEN Reply(Html(404, "Recording not found"), <<"hmac", "head_object">>)
    ELSE IF headOutcome # "ok"
    THEN Reply(Html(500, "Failed to generate URL"), <<"hmac", "head_object">>)
    ELSE IF presignOutcome # "ok"
    THEN Reply(Html(500, "Failed to generate URL"),
               <<"hmac", "head_object", "generate_presigned_url">>)
    ELSE Reply([statusCode |-> 302,
                location |-> [bucket |-> bucket, key |-> key, ttl |-> PresignTtl],
                cacheControl |-> "no-store"],
               <<"hmac", "head_object", "generate_presigned_url">>)

\* mutant: the existence check is made before the signature is verified
CheckSignatureAfterHead(bucket, key, expires, signature, signing_secret, headOutcome, presignOutcome) ==
    IF signing_secret = ""
    THEN Reply(Html(500, "Server configuration error"), <<>>)
    ELSE IF headOutcome = "404"
    THEN Reply(Html(404, "Recording not found"), <<"head_object">>)
    ELSE IF verify_signature(bucket, key, expires, signature, signing_secret) # "equal"
    THEN Reply(Html(403, "Invalid signature"), <<"head_object", "hmac">>)
    ELSE ResolveObject(bucket, key, headOutcome, presignOutcome)

\* lines 358-375: signing secret, then the signature
CheckSignature(bucket, key, expires, signature, signing_secret, headOutcome, presignOutcome) ==
    IF signing_secret = ""
    THEN Reply(Html(500, "Server configuration error"), <<>>)
    ELSE LET verdict == verify_signature(bucket, key, expires, signature, signing_secret)
         IN IF verdict = "TypeError"
            THEN Reply(Html(500, "Failed to generate URL"), <<"hmac">>)
            ELSE IF verdict # "equal"
            THEN Reply(Html(403, "Invalid signature"), <<"hmac">>)
            ELSE ResolveObject(bucket, key, headOutcome, presignOutcome)

\* mutant: a link is already expired in the second it expires
CheckExpiryEarly(bucket, key, expires, signature, t, signing_secret, headOutcome, presignOutcome) ==
    LET parsed == IntParse(expires)
    IN IF ~parsed.ok
       THEN Reply(Html(400, "Invalid expiration timestamp"), <<>>)
       ELSE IF t >= parsed.val
       THEN Reply([statusCode |-> 403, body |-> "This link expired",
                   expiresDate |-> parsed.val], <<>>)
       ELSE CheckSignature(bucket, key, expires, signature, signing_secret,
                           headOutcome, presignOutcome)

\* lines 337-356: expiry.  The timestamps of the model are within the range
\* datetime.fromtimestamp (line 342) renders; beyond it that call raises.
CheckExpiry(bucket, key, expires, signature, t, signing_secret, headOutcome, presignOutcome) ==
    LET parsed == IntParse(expires)
    IN IF ~parsed.ok
       THEN Reply(Html(400, "Invalid expiration timestamp"), <<>>)
       ELSE IF t > parsed.val
       THEN Reply([statusCode |-> 403, body |-> "This link expired",
                   expiresDate |-> parsed.val], <<>>)
       ELSE CheckSignature(bucket, key, expires, signature, signing_secret,
                           headOutcome, presignOutcome)

\* the response to event at time t, with the calls made on the way
handle_url_generation(event, t, signing_secret, headOutcome, presignOutcome) ==
    LET raw_path == event.rawPath
        path_after_voicemail == DropFirst(raw_path, PrefixLen)
        cut == IndexOf(path_after_voicemail, "/")
        bucket == SubSeq(path_after_voicemail, 1, cut - 1)
        key_encoded == DropFirst(path_after_voicemail, cut)
        expires == event.query.expires
        signature == event.query.signature
    IN IF ~StartsWith(raw_path, VoicemailPrefix)
       THEN Reply(Html(404, "Invalid path"), <<>>)
       ELSE IF path_after_voicemail = <<>> \/ ~Contains(path_after_voicemail, "/")
       THEN Reply(Html(400, "Missing bucket or key"), <<>>)
       ELSE IF \/ ~expires.present \/ expires.val = <<>>
               \/ ~signature.present \/ signature.val.kind = "empty"
       THEN Reply(Html(400, "Missing required parameters"), <<>>)
       ELSE CheckExpiry(bucket, Unquote(key_encoded), expires.val, signature.val,
                        t, signing_secret, headOutcome, presignOutcome)

\* bucket and key as the handler reads them off the path
PathBucket(raw_path) ==
    LET rest == DropFirst(raw_path, PrefixLen)
    IN SubSeq(rest, 1, IndexOf(rest, "/") - 1)

PathKey(raw_path) ==
    LET rest == DropFirst(raw_path, PrefixLen)
    IN Unquote(DropFirst(rest, IndexOf(rest, "/")))

----------------------------------------------------------------------------
(* The link-resolution service: environment and inputs *)

Secrets == {"s1", "s2"}

Bucket1 == <<"b">>
Bucket2 == <<"b", ":", "k">>
Key1 == <<"k">>
Key2 == <<"k", ":", "k">>
Key3 == <<"k", "/", "k">>

IssueBuckets == {Bucket1}
IssueKeys == {Key2, Key3}

\* URL_EXPIRATION settings, in seconds
UrlExpirations == {1800, 3600}

\* objects the telephony platform may upload or a lifecycle rule may delete
StoreObjects == {<<Bucket1, Key2>>}

ClockValues == {(h * HourSecs) + s : h \in 0..MaxHours, s \in 0..MaxSecs}

Absent == [present |-> FALSE, val |-> <<>>]
Given(v) == [present |-> TRUE, val |-> v]

EmptySignature == [kind |-> "empty", secret |-> "", msg |-> <<>>]
NonAsciiSignature == [kind |-> "nonascii", secret |-> "", msg |-> <<>>]
\* a hex string that is no digest under a configured secret
ForgedSignature == HmacHex("unknown", <<>>)

RawPaths ==
    {<<"/", "x">>, VoicemailPrefix, VoicemailPrefix \o Bucket1,
     VoicemailPrefix \o <<"/">> \o Key1, VoicemailPrefix \o Bucket1 \o <<"/">>,
     VoicemailPrefix \o Bucket1 \o <<"/">> \o Key1,
     VoicemailPrefix \o Bucket1 \o <<"/">> \o Key2,
     VoicemailPrefix \o Bucket2 \o <<"/">> \o Key1}
    \cup {VoicemailPrefix \o Bucket1 \o <<"/">> \o Quote(k) : k \in IssueKeys}

ExpiresInputs ==
    {Absent, Given(<<>>), Given(<<"x">>), Given(<<"-", "1">>), Given(<<" ", "0">>)}
    \cup {Given(IntToStr(l.expires + d)) : l \in issued, d \in {0, HourSecs}}

SignatureInputs ==
    {Absent, Given(EmptySignature), Given(NonAsciiSignature), Given(ForgedSignature)}
    \cup {l.query.signature : l \in issued}

\* what head_object can answer for an object (any call may also fail otherwise)
HeadOutcomes(bucket, key) ==
    (IF <<bucket, key>> \in store THEN {"ok"} ELSE {"404"}) \cup {"error"}

Idle == [state |-> "idle"]

ProcOff == [pc |-> "off"]

PreviewOff == [state |-> "off"]

InitLink ==
    /\ now = 0
    /\ secret \in Secrets \cup {""}
    /\ store \in SUBSET StoreObjects
    /\ issued = {}
    /\ inflight = Idle
    /\ jobs = {}
    /\ proc = ProcOff
    /\ preview = PreviewOff

Tick ==
    /\ inflight = Idle
    /\ \E d \in {1, HourSecs} : now + d \in ClockValues /\ now' = now + d
    /\ UNCHANGED <<secret, store, issued, inflight, jobs, proc, preview>>

\* the function's SIGNING_SECRET is set, rotated or removed
Reconfigure ==
    /\ inflight = Idle
    /\ \E s \in Secrets \cup {""} : s # secret /\ secret' = s
    /\ UNCHANGED <<now, store, issued, inflight, jobs, proc, preview>>

\* the telephony platform uploads a recording
Upload ==
    /\ inflight = Idle
    /\ \E o \in StoreObjects \ store : store' = store \cup {o}
    /\ UNCHANGED <<now, secret, issued, inflight, jobs, proc, preview>>

\* a recording is removed by its owner
Remove ==
    /\ inflight = Idle
    /\ \E o \in store : store' = store \ {o}
    /\ UNCHANGED <<now, secret, issued, inflight, jobs, proc, preview>>

\* lines 922-942: a processing invocation issues a link; the requests below are
\* built from the link issued last
Issue ==
    /\ inflight = Idle
    /\ secret # ""
    /\ \E bucket \in IssueBuckets, key \in IssueKeys, url_expiration \in UrlExpirations :
          issued' = {generate_signed_url(bucket, key, secret, url_expiration \div HourSecs, now)}
    /\ UNCHANGED <<now, secret, store, inflight, jobs, proc, preview>>

\* one Function URL request is answered; requests are answered one at a time and
\* the environment moves on once the answer is out
Resolve ==
    /\ inflight = Idle
    /\ \E raw_path \in RawPaths, expires \in ExpiresInputs, signature \in SignatureInputs :
          LET event == [rawPath |-> raw_path,
                        query |-> [expires |-> expires, signature |-> signature]]
          IN \E headOutcome \in HeadOutcomes(PathBucket(raw_path), PathKey(raw_path)),
                presignOutcome \in {"ok", "error"} :
                inflight' = [state |-> "answered", event |-> event, t |-> now,
                             secret |-> secret,
                             reply |-> handle_url_generation(event, now, secret,
                                                             headOutcome, presignOutcome)]
    /\ UNCHANGED <<now, secret, store, issued, jobs, proc, preview>>

\* the response is delivered and the function is ready for the next request
Return ==
    /\ inflight # Idle
    /\ inflight' = Idle
    /\ UNCHANGED <<now, secret, store, issued, jobs, proc, preview>>

NextLink == Tick \/ Reconfigure \/ Upload \/ Remove \/ Issue \/ Resolve \/ Return

SpecLink == InitLink /\ [][NextLink]_vars

----------------------------------------------------------------------------
(* Properties of the link-resolution path (SpecLink) *)

Answered == inflight # Idle

Status == inflight.reply.response.statusCode

Called(c) == \E i \in 1..Len(inflight.reply.calls) : inflight.reply.calls[i] = c

\* the request has the /voicemail/{bucket}/{key} shape the handler splits
PathSplits(e) ==
    /\ StartsWith(e.rawPath, VoicemailPrefix)
    /\ Contains(DropFirst(e.rawPath, PrefixLen), "/")

\* what the request presents
ReqBucket(e) == PathBucket(e.rawPath)
ReqKey(e) == PathKey(e.rawPath)
ReqExpires(e) == e.query.expires.val

ParamsGiven(e) ==
    /\ e.query.expires.present /\ e.query.expires.val # <<>>
    /\ e.query.signature.present /\ e.query.signature.val.kind # "empty"

\* the presented signature is the HMAC of the presented triple under secret_key
SignatureValid(e, secret_key) ==
    /\ e.query.signature.present
    /\ e.query.signature.val.kind = "hex"
    /\ e.query.signature.val.secret = secret_key
    /\ e.query.signature.val.msg =
          ReqBucket(e) \o <<":">> \o ReqKey(e) \o <<":">> \o ReqExpires(e)

ExpiredAt(e, t) == IntParse(ReqExpires(e)).ok /\ t > IntParse(ReqExpires(e)).val

NotExpiredAt(e, t) == IntParse(ReqExpires(e)).ok /\ t <= IntParse(ReqExpires(e)).val

\* C1: a request is answered 302 only if its signature is the HMAC of exactly
\* the presented (bucket, key, expires) under the configured signing secret, the
\* time of the request is not greater than expires, and the object exists (the
\* existence check for the presented bucket and key succeeded).
C1_RedirectOnlyIfAuthorized ==
    (Answered /\ Status = 302) =>
        LET e == inflight.event
        IN /\ PathSplits(e) /\ ParamsGiven(e)
           /\ inflight.secret # ""
           /\ SignatureValid(e, inflight.secret)
           /\ NotExpiredAt(e, inflight.t)
           /\ Called("head_object")
           /\ <<ReqBucket(e), ReqKey(e)>> \in store

C1_Witness == Answered /\ Status = 302

\* the request a recipient sends by following link l
LinkEvent(l) == [rawPath |-> l.rawPath, query |-> l.query]

\* the handler's expiry and signature checks both passed
VerificationPassed == Answered /\ Called("head_object")

RejectedExpired ==
    /\ Answered /\ Status = 403
    /\ inflight.reply.response.body = "This link expired"
    /\ inflight.reply.calls = <<>>

RejectedSignature ==
    /\ Answered /\ Status = 403
    /\ inflight.reply.response.body = "Invalid signature"
    /\ ~Called("head_object")

\* C2: the link generate_signed_url produced for (bucket, key), presented under
\* the secret it was signed with, passes verification at every time from its
\* issue up to and including expires, and is rejected as expired afterwards.
C2_RoundTrip ==
    \A l \in issued :
        (Answered /\ inflight.event = LinkEvent(l) /\ inflight.secret = l.secret) =>
            /\ inflight.t >= l.issuedAt
            /\ (inflight.t <= l.expires => VerificationPassed)
            /\ (inflight.t > l.expires => RejectedExpired)

C2_Witness ==
    \E l \in issued :
        /\ Answered /\ inflight.event = LinkEvent(l) /\ inflight.secret = l.secret
        /\ l.issuedAt < inflight.t /\ inflight.t = l.expires
        /\ VerificationPassed

\* the request keeps link l's signature and changes exactly one of bucket, key, expires
TamperedOnce(e, l) ==
    /\ PathSplits(e)
    /\ ParamsGiven(e)
    /\ e.query.signature = l.query.signature
    /\ Cardinality({f \in {"bucket", "key", "expires"} :
                      \/ f = "bucket" /\ ReqBucket(e) # l.bucket
                      \/ f = "key" /\ ReqKey(e) # l.key
                      \/ f = "expires" /\ ReqExpires(e) # IntToStr(l.expires)}) = 1

C4_SignatureBoundToTriple ==
    \A l \in issued :
        (/\ Answered /\ PathSplits(inflight.event)
         /\ inflight.event.query.signature = l.query.signature
         /\ <<ReqBucket(inflight.event), ReqKey(inflight.event), ReqExpires(inflight.event)>>
               # <<l.bucket, l.key, IntToStr(l.expires)>>)
        => ~VerificationPassed

\* C5: a request that is expired or whose signature does not verify gets the same
\* response whether or not the object exists, and no existence check is made for
\* it; the existence check is made only after both checks have passed.
C5_NoExistenceDisclosure ==
    Answered =>
        LET e == inflight.event
            refused == ExpiredAt(e, inflight.t) \/ ~SignatureValid(e, inflight.secret)
        IN /\ refused =>
                /\ ~Called("head_object")
                /\ \A h \in {"ok", "404", "error"}, p \in {"ok", "error"} :
                      handle_url_generation(e, inflight.t, inflight.secret, h, p)
                         = inflight.reply
           /\ Called("head_object") =>
                NotExpiredAt(e, inflight.t) /\ SignatureValid(e, inflight.secret)

C5_Witness ==
    /\ Answered /\ RejectedSignature
    /\ <<ReqBucket(inflight.event), ReqKey(inflight.event)>> \in store

\* C6: a request whose expires is not a non-negative integer is answered 400
\* (MalformedExpiry), not 403.
C6_MalformedExpiryIs400 ==
    (/\ Answered /\ PathSplits(inflight.event) /\ ParamsGiven(inflight.event)
     /\ ~(IntParse(ReqExpires(inflight.event)).ok
          /\ IntParse(ReqExpires(inflight.event)).val >= 0))
    => Status = 400

\* C7: a request under /voicemail/ with an empty bucket segment, an empty key
\* segment, or an absent or empty expires or signature is answered 400 before any
\* signature computation or object-store call.
C7_MissingParametersAre400 ==
    (/\ Answered /\ StartsWith(inflight.event.rawPath, VoicemailPrefix)
     /\ \/ ~PathSplits(inflight.event)
        \/ ReqBucket(inflight.event) = <<>>
        \/ DropFirst(inflight.event.rawPath, PrefixLen + Len(ReqBucket(inflight.event)) + 1) = <<>>
        \/ ~ParamsGiven(inflight.event))
    => (Status = 400 /\ inflight.reply.calls = <<>>)

----------------------------------------------------------------------------
(* Recording search *)

Abs(n) == IF n < 0 THEN 0 - n ELSE n

\* two-digit rendering of strftime's %H and %M
TwoDigits(n) == <<Digits[(n \div 10) + 1], Digits[(n % 10) + 1]>>

\* dt.strftime("%Y/%m/%d") of the minute m since the epoch, as a day number
DatePath(m) == IntToStr(m \div 1440)

\* dt.strftime("%Y%m%dT%H:%M")
TimeStamp(m) ==
    DatePath(m) \o <<"T">> \o TwoDigits((m \div 60) % 24) \o <<":">> \o TwoDigits(m % 60)

\* f"{prefix}/ivr/{date_path}/{filename}" if prefix else f"ivr/{date_path}/{filename}"
RecordingKey(prefix, initial_contact_id, m) ==
    (IF prefix # <<>> THEN prefix \o <<"/">> ELSE <<>>)
    \o <<"i", "v", "r", "/">> \o DatePath(m) \o <<"/">>
    \o initial_contact_id \o <<"_">> \o TimeStamp(m) \o <<"_", "U", "T", "C", ".", "w", "a", "v">>

RECURSIVE UrisFrom(_, _, _, _, _)
UrisFrom(prefix, initial_contact_id, anchor, offset, last) ==
    IF offset > last THEN <<>>
    ELSE <<[key |-> RecordingKey(prefix, initial_contact_id, anchor + offset),
            timestamp |-> TimeStamp(anchor + offset),
            minute |-> anchor + offset,
            offset_minutes |-> offset]>>
         \o UrisFrom(prefix, initial_contact_id, anchor, offset + 1, last)

\* the candidates for offsets -minutes_offset .. +minutes_offset, in that order;
\* anchor is the minute of `now`
generate_s3_uris_with_time_window(prefix, initial_contact_id, anchor, minutes_offset) ==
    UrisFrom(prefix, initial_contact_id, anchor, 0 - minutes_offset, minutes_offset)

\* insert x behind every element whose |offset| is not greater (the sort is stable)
RECURSIVE InsertByAbs(_, _)
InsertByAbs(sorted, x) ==
    IF sorted = <<>> THEN <<x>>
    ELSE IF Abs(Head(sorted).offset_minutes) <= Abs(x.offset_minutes)
         THEN <<Head(sorted)>> \o InsertByAbs(Tail(sorted), x)
         ELSE <<x>> \o sorted

RECURSIVE SortFrom(_, _)
SortFrom(sorted, rest) ==
    IF rest = <<>> THEN sorted
    ELSE SortFrom(InsertByAbs(sorted, Head(rest)), Tail(rest))

\* mutant: the candidates are probed in generation order
Unsorted(s3_uris) == s3_uris

\* s3_uris.sort(key=lambda x: abs(x['offset_minutes']))
SortByAbsOffset(s3_uris) == SortFrom(<<>>, s3_uris)

\* mutant: the outermost offsets of the window are left out
WindowCandidatesNarrow(prefix, initial_contact_id, anchor, window_minutes) ==
    SortByAbsOffset(
        generate_s3_uris_with_time_window(prefix, initial_contact_id, anchor,
                                          window_minutes - 1))

\* the probe list of one window (lines 680-681)
WindowCandidates(prefix, initial_contact_id, anchor, window_minutes) ==
    SortByAbsOffset(
        generate_s3_uris_with_time_window(prefix, initial_contact_id, anchor, window_minutes))

----------------------------------------------------------------------------
(* Environment variables and the Amazon Connect event *)

RECURSIVE StripSlashes(_)
StripSlashes(text) ==
    IF text # <<>> /\ Head(text) = "/" THEN StripSlashes(Tail(text))
    ELSE IF text # <<>> /\ text[Len(text)] = "/"
         THEN StripSlashes(SubSeq(text, 1, Len(text) - 1))
         ELSE text

\* text.rstrip("/")
RECURSIVE RStripSlashes(_)
RStripSlashes(text) ==
    IF text # <<>> /\ text[Len(text)] = "/"
    THEN RStripSlashes(SubSeq(text, 1, Len(text) - 1))
    ELSE text

\* os.environ.get(name, default)
EnvGet(setting, default) == IF setting.present THEN setting.val ELSE default

\* validate_environment: [ok |-> FALSE] stands for ValueError
validate_environment(env) ==
    LET base_path == StripSlashes(EnvGet(env.BASE_PATH, <<>>))
        email_sender == EnvGet(env.EMAIL_SENDER, <<>>)
        url_expiration == IntParse(EnvGet(env.URL_EXPIRATION, IntToStr(DefaultUrlExpiration)))
        recording_wait_time ==
            IntParse(EnvGet(env.RECORDING_WAIT_TIME, IntToStr(DefaultRecordingWaitTime)))
    IN [ok |-> /\ base_path # <<>> /\ email_sender # <<>>
               /\ url_expiration.ok /\ recording_wait_time.ok,
        base_path |-> base_path,
        url_expiration |-> url_expiration.val,
        email_sender |-> email_sender,
        recording_wait_time |-> recording_wait_time.val]

\* parts = base_path.split("/", 1)
BasePathBucket(base_path) ==
    IF Contains(base_path, "/") THEN SubSeq(base_path, 1, IndexOf(base_path, "/") - 1)
    ELSE base_path

BasePathPrefix(base_path) ==
    IF Contains(base_path, "/") THEN DropFirst(base_path, IndexOf(base_path, "/"))
    ELSE <<>>

ContactKeys == {"InitialContactId", "ContactId", "InstanceARN"}

InitialContactId == <<"c">>
Recipient == <<"r">>
Sender == <<"s">>
BaseUrl == <<"u">>

----------------------------------------------------------------------------
(* The recording-processing invocation (handle_voicemail_processing) *)

\* a complete configuration, and the configurations that differ from it in one setting
GoodEnv ==
    [BASE_PATH |-> Given(<<"/", "b", "/", "p", "/">>),
     EMAIL_SENDER |-> Given(Sender),
     URL_EXPIRATION |-> Absent,
     RECORDING_WAIT_TIME |-> Absent,
     REDIRECT_API_URL |-> Given(BaseUrl \o <<"/">>)]

EnvConfigs ==
    {GoodEnv,
     [GoodEnv EXCEPT !.BASE_PATH = Absent],
     [GoodEnv EXCEPT !.BASE_PATH = Given(<<"/">>)],
     [GoodEnv EXCEPT !.BASE_PATH = Given(<<"b">>)],
     [GoodEnv EXCEPT !.EMAIL_SENDER = Absent],
     [GoodEnv EXCEPT !.URL_EXPIRATION = Given(<<"1", "8", "0", "0">>)],
     [GoodEnv EXCEPT !.URL_EXPIRATION = Given(<<"x">>)],
     [GoodEnv EXCEPT !.RECORDING_WAIT_TIME = Given(<<"x">>)],
     [GoodEnv EXCEPT !.RECORDING_WAIT_TIME = Given(<<"-", "1">>)],
     [GoodEnv EXCEPT !.REDIRECT_API_URL = Absent],
     [GoodEnv EXCEPT !.REDIRECT_API_URL = Given(<<"/">>)]}

Events ==
    [keys : {ContactKeys, ContactKeys \ {"ContactId"}},
     emailRecipient : {Absent, Given(<<>>), Given(Recipient)},
     regionResolves : BOOLEAN]

\* time.time() when the invocation starts
StartTimes == {600, 640}

\* minutes whose recording the telephony platform may upload
RecordingMinutes == {6, 13}

NoCalls == [head_object |-> 0, start_transcription_job |-> 0,
            get_transcription_job |-> 0, fetch |-> 0, send_email |-> 0]

NoSleeps == [settle |-> 0, window |-> 0, backoff |-> 0, poll |-> 0]

NoLocation == [key |-> <<>>, timestamp |-> <<>>, minute |-> 0, offset_minutes |-> 0]

NoOutcome == [statusCode |-> 0, message |-> ""]

ProcStart(env, event) ==
    [pc |-> "start", env |-> env, event |-> event,
     config |-> validate_environment(env),
     attempt |-> 0, anchor |-> 0, window |-> 0, queue |-> <<>>, probes |-> <<>>,
     half |-> 0, found |-> FALSE, location |-> NoLocation,
     job_name |-> <<>>, waited |-> 0, signed |-> FALSE,
     starts |-> <<>>, completed |-> FALSE, cause |-> "",
     anchors |-> <<>>, existing |-> {}, job_status |-> "",
     calls |-> NoCalls, sleeps |-> NoSleeps, outcome |-> NoOutcome]

InitProc ==
    /\ now \in StartTimes
    /\ secret \in {"", "s1"}
    /\ store = {}
    /\ issued = {}
    /\ inflight = Idle
    /\ jobs = {}
    /\ \E env \in EnvConfigs, event \in Events : proc = ProcStart(env, event)
    /\ preview = PreviewOff

Bucket == BasePathBucket(proc.config.base_path)
Prefix == BasePathPrefix(proc.config.base_path)

Finish(p, status, text) ==
    [p EXCEPT !.pc = "done", !.outcome = [statusCode |-> status, message |-> text]]

\* the invocation ends because of the named failure
Fail(p, cause, status, text) == [Finish(p, status, text) EXCEPT !.cause = cause]

\* an exception no handler of the invocation catches: there is no outcome
Unhandled(p, exception) == [p EXCEPT !.pc = "raised", !.cause = exception]

\* lines 915-920: TranscriptionError is reported as 502 with its text, every
\* other exception of the transcription stage as the same 500
TranscriptionOutcome(exception, text) ==
    IF exception = "TranscriptionError" THEN [statusCode |-> 502, message |-> text]
    ELSE [statusCode |-> 500, message |-> "Transcription processing error"]

\* the exception each failure of the transcription stage raises
\* (lines 614, 616, 627, 637, 900, 903) and its text
TranscriptionFailures ==
    [StartRejected |-> [exception |-> "TranscriptionError",
                        text |-> "Failed to start transcription"],
     RetryRejected |-> [exception |-> "ClientError", text |-> "ClientError"],
     StatusError |-> [exception |-> "ClientError", text |-> "ClientError"],
     JobFailed |-> [exception |-> "TranscriptionError", text |-> "Transcription failed"],
     TimedOut |-> [exception |-> "TimeoutError", text |-> "Transcription job timed out"],
     ResultUnreadable |-> [exception |-> "Exception", text |-> "Exception"]]

\* the outcome of the invocation for a failure of the transcription stage
OutcomeOf(cause) ==
    TranscriptionOutcome(TranscriptionFailures[cause].exception,
                         TranscriptionFailures[cause].text)

FailTranscription(p, cause) ==
    [p EXCEPT !.pc = "done", !.outcome = OutcomeOf(cause), !.cause = cause]

Count(p, call) == [p EXCEPT !.calls[call] = @ + 1]

Slept(p, sleep) == [p EXCEPT !.sleeps[sleep] = @ + 1]

\* mutant: the recipient is not checked before the invocation goes on
ValidateWithoutRecipient ==
    /\ proc.pc = "start"
    /\ proc' =
          IF ~proc.config.ok
          THEN Finish(proc, 500, "Configuration error")
          ELSE IF proc.event.keys # ContactKeys
          THEN Finish(proc, 400, "Missing contact data")
          ELSE IF ~proc.event.regionResolves
          THEN Finish(proc, 500, "Failed to initialize AWS clients")
          ELSE [proc EXCEPT !.pc = "settle"]
    /\ UNCHANGED <<now, secret, store, issued, inflight, jobs, preview>>

\* lines 802-850: configuration, contact data, recipient, AWS clients
Validate ==
    /\ proc.pc = "start"
    /\ proc' =
          IF ~proc.config.ok
          THEN Finish(proc, 500, "Configuration error")
          ELSE IF proc.event.keys # ContactKeys
          THEN Finish(proc, 400, "Missing contact data")
          ELSE IF ~proc.event.emailRecipient.present \/ proc.event.emailRecipient.val = <<>>
          THEN Finish(proc, 400, "Missing emailRecipient attribute")
          ELSE IF ~proc.event.regionResolves
          THEN Finish(proc, 500, "Failed to initialize AWS clients")
          ELSE [proc EXCEPT !.pc = "settle"]
    /\ UNCHANGED <<now, secret, store, issued, inflight, jobs, preview>>

\* find_recording_in_s3 is entered at time t (lines 675-681); anchors and
\* existing record the anchor of each attempt and the minutes whose recording
\* exists when the attempt starts
EnterFind(p, t) ==
    [p EXCEPT !.pc = "probe",
              !.attempt = @ + 1,
              !.anchor = t \div MinuteSecs,
              !.anchors = Append(@, t \div MinuteSecs),
              !.existing =
                  {m \in RecordingMinutes :
                      <<BasePathBucket(p.config.base_path),
                        RecordingKey(BasePathPrefix(p.config.base_path), InitialContactId, m)>>
                          \in store},
              !.window = MAX_TIME_WINDOW_MINUTES,
              !.queue = WindowCandidates(BasePathPrefix(p.config.base_path), InitialContactId,
                                         t \div MinuteSecs, MAX_TIME_WINDOW_MINUTES),
              !.probes = <<>>]

\* line 854: time.sleep(recording_wait_time), then the first search attempt starts
Settle ==
    /\ proc.pc = "settle"
    /\ IF proc.config.recording_wait_time < 0
       THEN /\ now' = now
            /\ proc' = Unhandled(proc, "ValueError")
       ELSE /\ now' = now + proc.config.recording_wait_time
            /\ proc' = EnterFind(Slept(proc, "settle"), now')
    /\ UNCHANGED <<secret, store, issued, inflight, jobs, preview>>

\* mutant: the search is not retried
SearchFailedOnce(p) == Finish(p, 404, "Recording not found")

\* find_recording_in_s3 returned None (lines 865-875)
SearchFailed(p) ==
    IF p.attempt < SearchAttempts THEN [p EXCEPT !.pc = "backoff"]
    ELSE Finish(p, 404, "Recording not found")

\* mutant: a delay and a narrower window follow every window
WindowExhaustedAlwaysSleeps(p) == [p EXCEPT !.pc = "window_sleep"]

\* the candidate list of the window is exhausted (lines 693-697)
WindowExhausted(p) ==
    IF p.window > 1 THEN [p EXCEPT !.pc = "window_sleep"] ELSE SearchFailed(p)

\* mutant: an error of head_object is taken for "does not exist"
HeadFailedMasked(p) ==
    [(IF p.queue = <<>> THEN WindowExhausted(p) ELSE p) EXCEPT !.cause = "HeadError"]

\* lines 688-691 and 881-883: an error other than 404 is re-raised
HeadFailed(p) == Fail(p, "HeadError", 500, "Error searching for recording")

\* lines 683-691: one head_object call
Probe ==
    /\ proc.pc = "probe"
    /\ LET location == Head(proc.queue)
           p == [Count(proc, "head_object") EXCEPT
                    !.probes = Append(@, location.offset_minutes),
                    !.queue = Tail(@)]
       IN \E headOutcome \in HeadOutcomes(Bucket, location.key) :
             proc' = CASE headOutcome = "ok" ->
                            [p EXCEPT !.pc = "start_job", !.found = TRUE,
                                      !.location = location]
                       [] headOutcome = "404" ->
                            IF p.queue = <<>> THEN WindowExhausted(p) ELSE p
                       [] OTHER -> HeadFailed(p)
    /\ UNCHANGED <<now, secret, store, issued, inflight, jobs, preview>>

\* lines 693-695 and 677-681: time.sleep(0.5), then the next narrower window
WindowSleep ==
    /\ proc.pc = "window_sleep"
    /\ now' = now + proc.half
    /\ proc' = [Slept(proc, "window") EXCEPT
                   !.pc = "probe",
                   !.half = 1 - @,
                   !.window = @ - 1,
                   !.queue = WindowCandidates(Prefix, InitialContactId, proc.anchor,
                                              proc.window - 1),
                   !.probes = <<>>]
    /\ UNCHANGED <<secret, store, issued, inflight, jobs, preview>>

\* lines 869-871 and 863: time.sleep(30), then the next search attempt
Backoff ==
    /\ proc.pc = "backoff"
    /\ now' = now + SearchBackoffSecs
    /\ proc' = EnterFind(Slept(proc, "backoff"), now')
    /\ UNCHANGED <<secret, store, issued, inflight, jobs, preview>>

\* f"voicemail-transcribe-{int(time.time())}"
JobName(t) == <<t>>

\* mutant: the retry keeps the name
SameJobName(job_name, t) == job_name

\* f"{job_name}-{int(time.time())}"
RetryJobName(job_name, t) == Append(job_name, t)

\* what start_transcription_job of the service can answer for a job name
StartOutcomes(name) == (IF name \in jobs THEN {"ConflictException"} ELSE {"ok"}) \cup {"error"}

\* lines 887-891 and 587-611: the first start_transcription_job call
StartJob ==
    /\ proc.pc = "start_job"
    /\ LET job_name == JobName(now)
           p == [Count(proc, "start_transcription_job") EXCEPT
                    !.job_name = job_name, !.queue = <<>>, !.probes = <<>>]
       IN \E startOutcome \in StartOutcomes(job_name) :
             /\ proc' =
                   LET q == [p EXCEPT !.starts = Append(@, [name |-> job_name,
                                                             outcome |-> startOutcome])]
                   IN CASE startOutcome = "ok" -> [q EXCEPT !.pc = "poll"]
                        [] startOutcome = "ConflictException" ->
                             [q EXCEPT !.pc = "retry_start"]
                        [] OTHER -> FailTranscription(q, "StartRejected")
             /\ jobs' = IF startOutcome = "ok" THEN jobs \cup {job_name} ELSE jobs
    /\ UNCHANGED <<now, secret, store, issued, inflight, preview>>

\* lines 611-614: the retry under a new name; its errors are not translated
RetryStartJob ==
    /\ proc.pc = "retry_start"
    /\ LET job_name == RetryJobName(proc.job_name, now)
           p == [Count(proc, "start_transcription_job") EXCEPT !.job_name = job_name]
       IN \E startOutcome \in StartOutcomes(job_name) :
             /\ proc' =
                   LET q == [p EXCEPT !.starts = Append(@, [name |-> job_name,
                                                             outcome |-> startOutcome])]
                   IN IF startOutcome = "ok" THEN [q EXCEPT !.pc = "poll"]
                      ELSE FailTranscription(q, "RetryRejected")
             /\ jobs' = IF startOutcome = "ok" THEN jobs \cup {job_name} ELSE jobs
    /\ UNCHANGED <<now, secret, store, issued, inflight, preview>>

JobStatuses == {"QUEUED", "IN_PROGRESS", "COMPLETED", "FAILED"}

\* mutant: only a completed job is returned
ReturnsCompletedOnly(status) == status = "COMPLETED"

\* line 629: status in ("COMPLETED", "FAILED")
Returns(status) == status \in {"COMPLETED", "FAILED"}

\* mutant: the wait ends one interval late
WaitExceededLate(waited) == waited > TRANSCRIBE_MAX_WAIT_SECS

\* line 636
WaitExceeded(waited) == waited >= TRANSCRIBE_MAX_WAIT_SECS

\* lines 626-637 and 893-900: one get_transcription_job call and what follows it
Poll ==
    /\ proc.pc = "poll"
    /\ LET p == Count(proc, "get_transcription_job")
       IN \E status \in JobStatuses \cup {"error"} :
             CASE status = "error" ->
                    /\ proc' = FailTranscription(p, "StatusError")
                    /\ now' = now
               [] status # "error" /\ Returns(status) /\ status = "COMPLETED" ->
                    /\ proc' = [p EXCEPT !.pc = "fetch", !.completed = TRUE,
                                          !.job_status = status]
                    /\ now' = now
               [] status # "error" /\ Returns(status) /\ status # "COMPLETED" ->
                    /\ proc' = FailTranscription([p EXCEPT !.job_status = status],
                                                  "JobFailed")
                    /\ now' = now
               [] OTHER ->
                    /\ now' = now + TRANSCRIBE_POLL_SECS
                    /\ proc' =
                          LET q == [Slept(p, "poll") EXCEPT
                                       !.waited = @ + TRANSCRIBE_POLL_SECS,
                                       !.job_status = status]
                          IN IF WaitExceeded(q.waited)
                             THEN FailTranscription(q, "TimedOut")
                             ELSE q
    /\ UNCHANGED <<secret, store, issued, inflight, jobs, preview>>

\* mutant: the notification is sent without a signed link
FetchThenSend ==
    /\ proc.pc = "fetch"
    /\ \E fetchOutcome \in {"ok", "error"} :
          proc' = IF fetchOutcome = "ok" THEN [Count(proc, "fetch") EXCEPT !.pc = "send"]
                  ELSE FailTranscription(Count(proc, "fetch"), "ResultUnreadable")
    /\ UNCHANGED <<now, secret, store, issued, inflight, jobs, preview>>

\* lines 902-913: the transcript is fetched and the preview compiled
Fetch ==
    /\ proc.pc = "fetch"
    /\ \E fetchOutcome \in {"ok", "error"} :
          proc' = IF fetchOutcome = "ok" THEN [Count(proc, "fetch") EXCEPT !.pc = "sign"]
                  ELSE FailTranscription(Count(proc, "fetch"), "ResultUnreadable")
    /\ UNCHANGED <<now, secret, store, issued, inflight, jobs, preview>>

\* lines 922-948: the signed redirect URL
Sign ==
    /\ proc.pc = "sign"
    /\ IF RStripSlashes(EnvGet(proc.env.REDIRECT_API_URL, <<>>)) = <<>> \/ secret = ""
       THEN /\ proc' = Fail(proc, "SignError", 500, "Error generating signed URL")
            /\ issued' = issued
       ELSE /\ proc' = [proc EXCEPT !.pc = "send", !.signed = TRUE]
            /\ issued' = issued \cup
                  {generate_signed_url(Bucket, proc.location.key, secret,
                                       proc.config.url_expiration \div HourSecs, now)}
    /\ UNCHANGED <<now, secret, store, inflight, jobs, preview>>

\* mutant: the recording is deleted once the notification is out
SendAndDelete ==
    /\ proc.pc = "send"
    /\ proc' = Finish(Count(proc, "send_email"), 200, "Voicemail processed successfully")
    /\ store' = store \ {<<Bucket, proc.location.key>>}
    /\ UNCHANGED <<now, secret, issued, inflight, jobs, preview>>

\* lines 950-977: the notification
Send ==
    /\ proc.pc = "send"
    /\ \E sendOutcome \in {"ok", "ClientError", "error"} :
          proc' = CASE sendOutcome = "ok" ->
                         Finish(Count(proc, "send_email"), 200,
                                "Voicemail processed successfully")
                    [] sendOutcome = "ClientError" ->
                         Fail(Count(proc, "send_email"), "SendError", 500, "Email send failed")
                    [] OTHER ->
                         Fail(Count(proc, "send_email"), "SendError", 500, "Email error")
    /\ UNCHANGED <<now, secret, store, issued, inflight, jobs, preview>>

Searching == proc.pc \in {"start", "settle", "probe", "window_sleep", "backoff"}

\* the telephony platform finishes uploading a recording of the contact
UploadRecording ==
    /\ Searching
    /\ proc.config.ok
    /\ \E m \in RecordingMinutes :
          /\ <<Bucket, RecordingKey(Prefix, InitialContactId, m)>> \notin store
          /\ store' = store \cup {<<Bucket, RecordingKey(Prefix, InitialContactId, m)>>}
    /\ UNCHANGED <<now, secret, issued, inflight, jobs, proc, preview>>

\* another invocation starts its job in the same second: under the name of the
\* second, or, when that name is taken, under the retry name (lines 587-614)
ForeignJob ==
    /\ proc.pc \in {"start_job", "retry_start"}
    /\ LET job_name == IF JobName(now) \in jobs THEN RetryJobName(JobName(now), now)
                       ELSE JobName(now)
       IN /\ job_name \notin jobs
          /\ jobs' = jobs \cup {job_name}
    /\ UNCHANGED <<now, secret, store, issued, inflight, proc, preview>>

NextProc ==
    \/ Validate \/ Settle \/ Probe \/ WindowSleep \/ Backoff
    \/ StartJob \/ RetryStartJob \/ Poll \/ Fetch \/ Sign \/ Send
    \/ UploadRecording \/ ForeignJob

SpecProc == InitProc /\ [][NextProc]_vars

----------------------------------------------------------------------------
(* Properties of the recording-processing path (SpecProc) *)

Done == proc.pc = "done"

RecipientMissing ==
    ~proc.event.emailRecipient.present \/ proc.event.emailRecipient.val = <<>>

\* C8 as stated: an invocation whose event has no or an empty emailRecipient
\* returns 400, calls no collaborator and does not wait the settle delay.
C8_MissingRecipientIs400 ==
    (Done /\ RecipientMissing) =>
        /\ proc.outcome.statusCode = 400
        /\ proc.calls = NoCalls /\ proc.sleeps = NoSleeps

\* C8 amended: such an invocation calls no collaborator and does not wait the
\* settle delay; it returns 400 when the configuration passes
\* validate_environment, and the 500 configuration failure when it does not
\* (the configuration is validated before the event is read).
C8_MissingRecipientRejected ==
    RecipientMissing =>
        /\ proc.calls = NoCalls /\ proc.sleeps = NoSleeps
        /\ proc.pc \in {"start", "done"}
        /\ Done => proc.outcome.statusCode = (IF proc.config.ok THEN 400 ELSE 500)

C8_Witness ==
    /\ Done /\ RecipientMissing /\ proc.config.ok /\ proc.event.keys = ContactKeys
    /\ proc.outcome = [statusCode |-> 400, message |-> "Missing emailRecipient attribute"]

\* a required configuration value is missing
ConfigMissing ==
    \/ StripSlashes(EnvGet(proc.env.BASE_PATH, <<>>)) = <<>>
    \/ EnvGet(proc.env.EMAIL_SENDER, <<>>) = <<>>
    \/ secret = ""
    \/ RStripSlashes(EnvGet(proc.env.REDIRECT_API_URL, <<>>)) = <<>>

ConfigFailures ==
    {[statusCode |-> 500, message |-> "Configuration error"],
     [statusCode |-> 500, message |-> "Error generating signed URL"]}

\* C9: when a required configuration value (storage root, sender, signing
\* secret, link base URL) is missing, the invocation ends with a configuration
\* failure before any call to the object store, the transcription service or the
\* email service.
C9_ConfigFailFast ==
    ConfigMissing =>
        /\ proc.calls = NoCalls
        /\ Done => proc.outcome \in ConfigFailures

ProbesNonDecreasing ==
    \A i \in 1..Len(proc.probes), j \in 1..Len(proc.probes) :
        i < j => Abs(proc.probes[i]) <= Abs(proc.probes[j])

\* the search has just returned a location
JustFound == proc.pc = "start_job" /\ proc.found

\* C10: within every search window the existence checks are issued in
\* non-decreasing absolute-offset order; a recording found at offset +2 in the
\* 5-minute window is returned without a probe of absolute offset above 2.
C10_ProbeOrder ==
    /\ ProbesNonDecreasing
    /\ JustFound =>
          /\ proc.probes # <<>>
          /\ proc.probes[Len(proc.probes)] = proc.location.offset_minutes
          /\ \A i \in 1..Len(proc.probes) :
                Abs(proc.probes[i]) <= Abs(proc.location.offset_minutes)
    /\ (JustFound /\ proc.window = MAX_TIME_WINDOW_MINUTES
           /\ proc.location.offset_minutes = 2) =>
          proc.probes = <<0, -1, 1, -2, 2>>

C10_Witness ==
    /\ JustFound /\ proc.window = MAX_TIME_WINDOW_MINUTES
    /\ proc.location.offset_minutes = 2
    /\ proc.location.minute = proc.anchor + 2
    /\ store = {<<Bucket, RecordingKey(Prefix, InitialContactId, proc.anchor + 2)>>}
    /\ proc.calls.head_object = 5

\* the invocation ended without an outcome
Raised == proc.pc = "raised"

TranscriptionCalls ==
    proc.calls.start_transcription_job + proc.calls.get_transcription_job + proc.calls.fetch

\* C11: when an existence check fails with an error other than "does not
\* exist", the search stops at that probe (candidates, windows and the second
\* attempt that remain are not tried) and the invocation ends with 500, never
\* with 404 and never with a transcription call.
C11_HeadErrorIsFatal ==
    proc.cause = "HeadError" =>
        /\ Done
        /\ proc.outcome = [statusCode |-> 500, message |-> "Error searching for recording"]
        /\ ~proc.found
        /\ proc.probes # <<>>
        /\ TranscriptionCalls = 0 /\ proc.calls.send_email = 0

\* the error came with candidates, windows and an attempt still to go
C11_Witness ==
    /\ Done /\ proc.cause = "HeadError"
    /\ proc.queue # <<>> /\ proc.window > 1 /\ proc.attempt = 1
    /\ proc.calls.head_object = 3
    /\ proc.sleeps.backoff = 0

\* existence checks one search attempt makes when all answer "does not exist":
\* 2W + 1 for each window W = MAX_TIME_WINDOW_MINUTES .. 1
ProbesPerSearch == MAX_TIME_WINDOW_MINUTES * (MAX_TIME_WINDOW_MINUTES + 2)

\* every existence check made so far answered "does not exist"
AllAbsent == proc.calls.head_object > 0 /\ ~proc.found /\ proc.cause # "HeadError"

\* C12: when every existence check reports "does not exist", the window search
\* runs exactly 2 times with exactly one 30-second backoff between them, and the
\* invocation then ends with 404 without a transcription job or a message.
C12_SearchRetry ==
    /\ proc.attempt <= SearchAttempts
    /\ proc.attempt >= 1 => proc.sleeps.backoff = proc.attempt - 1
    /\ (Done /\ AllAbsent) =>
          /\ proc.outcome = [statusCode |-> 404, message |-> "Recording not found"]
          /\ proc.attempt = SearchAttempts
          /\ proc.sleeps.backoff = SearchAttempts - 1
          /\ proc.calls.head_object = SearchAttempts * ProbesPerSearch
          /\ TranscriptionCalls = 0 /\ proc.calls.send_email = 0
    /\ (Done /\ proc.outcome.statusCode = 404) => AllAbsent

C12_Witness ==
    /\ Done /\ AllAbsent /\ proc.outcome.statusCode = 404
    /\ proc.sleeps.backoff = 1 /\ proc.calls.head_object = 70
    /\ store # {}

\* C13: at most two start-job calls are made; a naming conflict at the first is
\* retried exactly once under a different name, and a conflict at the retry is
\* fatal: no third call, no job polled, a failure outcome.
C13_ConflictRetry ==
    /\ Len(proc.starts) = proc.calls.start_transcription_job
    /\ Len(proc.starts) <= 2
    /\ (Len(proc.starts) = 1 /\ proc.starts[1].outcome = "ConflictException") =>
          proc.pc = "retry_start"
    /\ Len(proc.starts) = 2 =>
          /\ proc.starts[1].outcome = "ConflictException"
          /\ proc.starts[2].name # proc.starts[1].name
          /\ proc.starts[2].outcome = "ConflictException" =>
                /\ Done /\ proc.outcome.statusCode \in {500, 502}
                /\ proc.calls.get_transcription_job = 0
                /\ proc.calls.send_email = 0

C13_Witness ==
    /\ Done /\ Len(proc.starts) = 2
    /\ proc.starts[2].outcome = "ConflictException"
    /\ proc.calls.start_transcription_job = 2

MaxPolls == TRANSCRIBE_MAX_WAIT_SECS \div TRANSCRIBE_POLL_SECS

\* C14: when the job status never becomes COMPLETED or FAILED, polling ends as
\* timed out once 600 s have been waited in 3 s intervals, and the invocation
\* ends with a reported failure outcome; it never polls longer.
C14_PollTimeout ==
    /\ proc.waited = TRANSCRIBE_POLL_SECS * proc.sleeps.poll
    /\ proc.waited <= TRANSCRIBE_MAX_WAIT_SECS
    /\ proc.calls.get_transcription_job <= MaxPolls
    /\ proc.waited >= TRANSCRIBE_MAX_WAIT_SECS =>
          /\ Done /\ proc.cause = "TimedOut"
          /\ proc.outcome.statusCode \in {500, 502}
    /\ proc.cause = "TimedOut" =>
          /\ proc.waited = TRANSCRIBE_MAX_WAIT_SECS
          /\ proc.calls.get_transcription_job = MaxPolls
          /\ proc.calls.fetch = 0 /\ proc.calls.send_email = 0

C14_Witness ==
    /\ Done /\ proc.cause = "TimedOut"
    /\ proc.sleeps.poll = 200 /\ proc.waited = 600
    /\ proc.outcome.statusCode = 500

\* C15: the outcome of an invocation whose transcription timed out differs from
\* the outcome for a job marked FAILED and from the outcome for an error of the
\* external service (a rejected start-job call, an unreadable result).
C15_TimeoutDistinct ==
    (Done /\ proc.cause = "TimedOut") =>
        \A cause \in {"JobFailed", "StartRejected", "ResultUnreadable"} :
            proc.outcome # OutcomeOf(cause)

\* a start-job call of the invocation was accepted
Started == \E i \in 1..Len(proc.starts) : proc.starts[i].outcome = "ok"

\* C16: the notification is sent at most once, and only after the recording was
\* located, then a job started and seen COMPLETED, then a link signed; a failure
\* ends the invocation at its stage with no later stage run; the outcome is 200
\* exactly when the send call returned successfully.
C16_StageOrder ==
    /\ proc.calls.send_email <= 1
    /\ proc.calls.send_email = 1 => proc.signed
    /\ proc.signed => (proc.completed /\ proc.calls.fetch = 1)
    /\ proc.completed => Started
    /\ proc.calls.start_transcription_job > 0 => proc.found
    /\ proc.found => proc.calls.head_object > 0
    /\ proc.cause # "" => (Done \/ Raised)
    /\ (Done /\ ~proc.found) => TranscriptionCalls = 0
    /\ (Done /\ ~Started) => proc.calls.get_transcription_job = 0
    /\ (Done /\ ~proc.completed) => (proc.calls.fetch = 0 /\ ~proc.signed)
    /\ (Done /\ ~proc.signed) => proc.calls.send_email = 0
    /\ Done => (proc.outcome.statusCode = 200
                   <=> (proc.calls.send_email = 1 /\ proc.cause = ""))

C16_Witness ==
    /\ Done /\ proc.outcome.statusCode = 200
    /\ proc.calls.send_email = 1 /\ proc.signed /\ proc.completed /\ proc.found
    /\ Len(proc.starts) = 2
    /\ proc.attempt = 2

\* C17: an invocation reaches the outcome it would reach alone, whatever other
\* invocations do in the same second: it never ends in failure because the job
\* names it chose were taken by other invocations.
C17_ConcurrentIndependent ==
    ~(/\ Done /\ proc.cause = "RetryRejected"
      /\ proc.starts[2].outcome = "ConflictException")

\* C18: every invocation ends with an outcome in {200, 400, 404, 500, 502}, and
\* its wait loops (window retry delay, outer search retry, transcription poll)
\* run at most a fixed number of times.
C18_BoundedTermination ==
    /\ ~Raised
    /\ Done => proc.outcome.statusCode \in {200, 400, 404, 500, 502}
    /\ proc.sleeps.window <= SearchAttempts * (MAX_TIME_WINDOW_MINUTES - 1)
    /\ proc.sleeps.backoff <= SearchAttempts - 1
    /\ proc.sleeps.poll <= MaxPolls

\* C19: the expiry of an issued link is the issue time plus URL_EXPIRATION
\* seconds, whatever the configured duration.
C19_LinkLifetime ==
    \A l \in issued : l.expires = l.issuedAt + proc.config.url_expiration

----------------------------------------------------------------------------
(* The transcript preview compiler (build_transcription_preview) *)

DEFAULT_PREVIEW_LEN == 700
DEFAULT_MODE == "channel"

\* sep.join(parts)
RECURSIVE Join(_, _)
Join(parts, sep) ==
    IF parts = <<>> THEN <<>>
    ELSE IF Len(parts) = 1 THEN parts[1]
    ELSE parts[1] \o sep \o Join(Tail(parts), sep)

\* text.replace(old, new): the occurrences of old, left to right, not overlapping
RECURSIVE Replace(_, _, _)
Replace(text, old, new) ==
    IF Len(text) < Len(old) THEN text
    ELSE IF StartsWith(text, old)
    THEN new \o Replace(DropFirst(text, Len(old)), old, new)
    ELSE <<Head(text)>> \o Replace(Tail(text), old, new)

\* text.strip()
Strip(text) == StripRight(StripLeft(text))

\* mutant: the text is not cut
NoTruncate(text, limit) == text

\* text[:limit] for limit >= 0
Truncate(text, limit) == SubSeq(text, 1, IF limit < Len(text) THEN limit ELSE Len(text))

\* mutant: the joined words are only stripped
NormalizeStripOnly(words) == Strip(Join(words, <<" ">>))

\* lines 525 and 560: " ".join(words).replace(" ,", ",").replace(" .", ".").strip()
Normalize(words) ==
    Strip(Replace(Replace(Join(words, <<" ">>), <<" ", ",">>, <<",">>),
                  <<" ", ".">>, <<".">>))

\* lines 513-523: the words of one channel's items, after the words so far
RECURSIVE ChannelWords(_, _)
ChannelWords(items, words) ==
    IF items = <<>> THEN words
    ELSE LET item == Head(items)
         IN ChannelWords(Tail(items),
               IF item.type = "pronunciation" THEN Append(words, item.content)
               ELSE IF item.type = "punctuation" /\ words # <<>>
               THEN [words EXCEPT ![Len(words)] = @ \o item.content]
               ELSE IF item.type = "punctuation" THEN Append(words, item.content)
               ELSE words)

\* lines 512-527: the non-empty texts of the channels, in order
RECURSIVE ChannelTexts(_)
ChannelTexts(channels) ==
    IF channels = <<>> THEN <<>>
    ELSE LET text == Normalize(ChannelWords(Head(channels).items, <<>>))
         IN (IF text # <<>> THEN <<text>> ELSE <<>>) \o ChannelTexts(Tail(channels))

\* results.get(name, {}) of an entry that may be absent
Entry(setting, default) == IF setting.present THEN setting.val ELSE default

\* _build_preview_channel
build_preview_channel(results, limit) ==
    LET channels == Entry(results.channel_labels, [channels |-> <<>>]).channels
    IN Truncate(Strip(Join(ChannelTexts(channels), <<" ">>)), limit)

\* lines 534-540: the (start_time, speaker) entries of speaker_map, in the order
\* they are stored; an item without start_time stores nothing
RECURSIVE SegmentPairs(_, _)
SegmentPairs(speaker, items) ==
    IF items = <<>> THEN <<>>
    ELSE (IF Head(items).start_time # ""
          THEN <<[start_time |-> Head(items).start_time, speaker |-> speaker]>>
          ELSE <<>>) \o SegmentPairs(speaker, Tail(items))

RECURSIVE SpeakerPairs(_)
SpeakerPairs(segments) ==
    IF segments = <<>> THEN <<>>
    ELSE SegmentPairs(Head(segments).speaker_label, Head(segments).items)
            \o SpeakerPairs(Tail(segments))

\* speaker_map.get(start_time, default): the entry stored last wins
SpeakerMapGet(segments, start_time, default) ==
    LET pairs == SpeakerPairs(segments)
        hits == {i \in 1..Len(pairs) : pairs[i].start_time = start_time}
    IN IF hits = {} THEN default
       ELSE pairs[CHOOSE i \in hits : \A j \in hits : j <= i].speaker

\* speaker in per_speaker
HasSpeaker(per_speaker, speaker) ==
    \E i \in 1..Len(per_speaker) : per_speaker[i].speaker = speaker

\* per_speaker.setdefault(speaker, []).append(content)
AppendWord(per_speaker, speaker, content) ==
    IF HasSpeaker(per_speaker, speaker)
    THEN [i \in 1..Len(per_speaker) |->
             IF per_speaker[i].speaker = speaker
             THEN [per_speaker[i] EXCEPT !.words = Append(@, content)]
             ELSE per_speaker[i]]
    ELSE Append(per_speaker, [speaker |-> speaker, words |-> <<content>>])

\* per_speaker[speaker][-1] += content
AppendToLast(per_speaker, speaker, content) ==
    [i \in 1..Len(per_speaker) |->
        IF per_speaker[i].speaker = speaker
        THEN [per_speaker[i] EXCEPT !.words[Len(per_speaker[i].words)] = @ \o content]
        ELSE per_speaker[i]]

\* lines 542-556: the words of each speaker, speakers in first-seen order;
\* current_speaker "" stands for None
RECURSIVE SpeakerWords(_, _, _, _)
SpeakerWords(items, segments, current_speaker, per_speaker) ==
    IF items = <<>> THEN per_speaker
    ELSE LET item == Head(items)
         IN IF item.type = "pronunciation"
            THEN LET speaker == SpeakerMapGet(segments, item.start_time, current_speaker)
                 IN SpeakerWords(Tail(items), segments, speaker,
                                 AppendWord(per_speaker,
                                            IF speaker = "" THEN "spk_?" ELSE speaker,
                                            item.content))
            ELSE IF item.type = "punctuation" /\ HasSpeaker(per_speaker, current_speaker)
            THEN SpeakerWords(Tail(items), segments, current_speaker,
                              AppendToLast(per_speaker, current_speaker, item.content))
            ELSE SpeakerWords(Tail(items), segments, current_speaker, per_speaker)

\* lines 558-562: the non-empty texts of the speakers, in order
RECURSIVE SpeakerTexts(_)
SpeakerTexts(per_speaker) ==
    IF per_speaker = <<>> THEN <<>>
    ELSE LET text == Normalize(Head(per_speaker).words)
         IN (IF text # <<>> THEN <<text>> ELSE <<>>) \o SpeakerTexts(Tail(per_speaker))

\* _build_preview_diarization
build_preview_diarization(results, limit) ==
    LET segments == Entry(results.speaker_labels, [segments |-> <<>>]).segments
    IN Truncate(Strip(Join(SpeakerTexts(SpeakerWords(results.items, segments, "", <<>>)),
                           <<" ">>)), limit)

\* build_transcription_preview
build_transcription_preview(results, mode, limit) ==
    IF mode = "channel" /\ results.channel_labels.present
    THEN build_preview_channel(results, limit)
    ELSE IF mode = "diarization" /\ results.speaker_labels.present
    THEN build_preview_diarization(results, limit)
    ELSE Strip(Truncate(results.transcript, limit))

\* float(text) for decimal numerals with at most one fractional digit, the
\* value counted in tenths; [ok |-> FALSE] stands for ValueError
FloatParse(text) ==
    LET stripped == Strip(text)
        signed == stripped # <<>> /\ Head(stripped) \in {"+", "-"}
        body == IF signed THEN Tail(stripped) ELSE stripped
        dot == IndexOf(body, ".")
        whole == IF dot = 0 THEN body ELSE SubSeq(body, 1, dot - 1)
        frac == IF dot = 0 THEN <<>> ELSE DropFirst(body, dot)
        ok == /\ whole \o frac # <<>>
              /\ \A i \in 1..Len(whole) : whole[i] \in DigitSet
              /\ \A i \in 1..Len(frac) : frac[i] \in DigitSet
              /\ Len(frac) <= 1
        tenths == 10 * DigitsValue(whole) + DigitsValue(frac)
    IN [ok |-> ok,
        val |-> IF ~ok THEN 0 ELSE IF signed /\ Head(stripped) = "-" THEN 0 - tenths
                ELSE tenths]

\* the items from the first to the last
RECURSIVE FirstEndTime(_, _)
FirstEndTime(items, i) ==
    IF i = 0 THEN 0
    ELSE LET j == Len(items) + 1 - i
         IN IF items[j].end_time # <<>>
            THEN (IF FloatParse(items[j].end_time).ok THEN FloatParse(items[j].end_time).val
                  ELSE 0)
            ELSE FirstEndTime(items, i - 1)

\* lines 574-578 and 579-581: the items from the last to the first, i the
\* position of the next one; float() of the first end_time met, 0 when it
\* raises and when there is none
RECURSIVE LastEndTime(_, _)
LastEndTime(items, i) ==
    IF i = 0 THEN 0
    ELSE IF items[i].end_time # <<>>
    THEN (IF FloatParse(items[i].end_time).ok THEN FloatParse(items[i].end_time).val
          ELSE 0)
    ELSE LastEndTime(items, i - 1)

\* mutant: the end time of the first item that has one
duration_of_first(results) ==
    IF results.items = <<>> THEN 0 ELSE FirstEndTime(results.items, Len(results.items))

\* get_actual_recording_duration, in tenths of a second
get_actual_recording_duration(results) ==
    IF results.items = <<>> THEN 0 ELSE LastEndTime(results.items, Len(results.items))

----------------------------------------------------------------------------
(* The preview compiler applied to transcription results (SpecPreview) *)

Hello == <<"h", "e", "l", "l", "o">>
Bye == <<"b", "y", "e">>
DotNet == <<".", "n", "e", "t">>

\* items of a transcription result; start_time "" and end_time <<>> stand for
\* a missing one
Word(content, start_time) ==
    [type |-> "pronunciation", content |-> content, start_time |-> start_time,
     end_time |-> <<>>]
Punct(content) ==
    [type |-> "punctuation", content |-> content, start_time |-> "", end_time |-> <<>>]

\* the item with an end_time
Timed(item, end_time) == [item EXCEPT !.end_time = end_time]

SeqsUpTo(S, n) == UNION {[1..k -> S] : k \in 0..n}

ChannelItems ==
    {Word(Hello, ""), Word(Bye, ""), Word(DotNet, ""), Punct(<<",">>), Punct(<<".">>)}

\* ChannelIdentification (line 602) is the transcription of two-channel audio
ChannelCount == 2

Channels == {[items |-> items] : items \in SeqsUpTo(ChannelItems, MaxItems)}

NoChannelLabels == [present |-> FALSE, val |-> [channels |-> <<>>]]
NoSpeakerLabels == [present |-> FALSE, val |-> [segments |-> <<>>]]

ChannelResults ==
    {[channel_labels |-> [present |-> TRUE, val |-> [channels |-> channels]],
      speaker_labels |-> NoSpeakerLabels, items |-> <<>>, transcript |-> <<>>] :
        channels \in SeqsUpTo(Channels, ChannelCount)}

PlainResults ==
    {[channel_labels |-> NoChannelLabels, speaker_labels |-> NoSpeakerLabels,
      items |-> <<>>, transcript |-> transcript] :
        transcript \in {<<>>, <<" ">> \o Hello \o <<" ">>, Hello \o <<",", " ">> \o Bye}}

Segments ==
    {<<>>,
     <<[speaker_label |-> "spk_0", items |-> <<[start_time |-> "t0"]>>],
       [speaker_label |-> "spk_1", items |-> <<[start_time |-> "t1"]>>]>>}

DiarizationItems == {Word(Hello, "t0"), Word(Bye, "t1"), Word(Bye, ""), Punct(<<",">>)}

DiarizationResults ==
    {[channel_labels |-> NoChannelLabels,
      speaker_labels |-> [present |-> TRUE, val |-> [segments |-> segments]],
      items |-> items, transcript |-> <<>>] :
        segments \in Segments, items \in SeqsUpTo(DiarizationItems, MaxItems + 1)}

\* token streams with end times "12.4", "3", the unparsable "x", and none
DurationItems ==
    {Timed(Word(Hello, ""), <<"1", "2", ".", "4">>), Timed(Word(Bye, ""), <<"3">>),
     Timed(Word(Bye, ""), <<"x">>), Punct(<<",">>)}

DurationResults ==
    {[channel_labels |-> NoChannelLabels, speaker_labels |-> NoSpeakerLabels,
      items |-> items, transcript |-> <<>>] :
        items \in SeqsUpTo(DurationItems, MaxItems + 1)}

PreviewLimits == {0, 4, DEFAULT_PREVIEW_LEN}

PreviewInputs ==
    [results : ChannelResults \cup PlainResults \cup DurationResults,
     mode : {DEFAULT_MODE}, limit : PreviewLimits]
    \cup [results : DiarizationResults, mode : {"diarization"}, limit : PreviewLimits]

InitPreview ==
    /\ now = 0
    /\ secret = ""
    /\ store = {}
    /\ issued = {}
    /\ inflight = Idle
    /\ jobs = {}
    /\ proc = ProcOff
    /\ \E input \in PreviewInputs :
          preview = [state |-> "given", results |-> input.results, mode |-> input.mode,
                     limit |-> input.limit, text |-> <<>>, duration |-> 0]

\* lines 906-907: the preview and the duration of the fetched results
Compile ==
    /\ preview.state = "given"
    /\ preview' = [preview EXCEPT
                      !.state = "compiled",
                      !.text = build_transcription_preview(preview.results, preview.mode,
                                                           preview.limit),
                      !.duration = get_actual_recording_duration(preview.results)]
    /\ UNCHANGED <<now, secret, store, issued, inflight, jobs, proc>>

NextPreview == Compile

SpecPreview == InitPreview /\ [][NextPreview]_vars

----------------------------------------------------------------------------
(* Properties of the preview compiler (SpecPreview) *)

\* a result with channel data has been compiled in channel mode
ChannelCompiled ==
    /\ preview.state = "compiled"
    /\ preview.mode = "channel" /\ preview.results.channel_labels.present

PreviewChannels == preview.results.channel_labels.val.channels

WordsOf(channel) == ChannelWords(channel.items, <<>>)

\* the contents of the items, one after the other
RECURSIVE Contents(_)
Contents(items) ==
    IF items = <<>> THEN <<>> ELSE Head(items).content \o Contents(Tail(items))

\* the items that start a word: every WORD item, and a PUNCTUATION item that
\* comes first in its channel
Starters(items) ==
    {i \in 1..Len(items) :
        \/ items[i].type = "pronunciation"
        \/ items[i].type = "punctuation" /\ i = 1}

\* the non-empty members of texts, in order
RECURSIVE NonEmpty(_)
NonEmpty(texts) ==
    IF texts = <<>> THEN <<>>
    ELSE (IF Head(texts) # <<>> THEN <<Head(texts)>> ELSE <<>>) \o NonEmpty(Tail(texts))

\* the words of every channel joined by single spaces, channels joined by
\* single spaces
StatedText ==
    Join(NonEmpty([i \in 1..Len(PreviewChannels) |->
                      Join(WordsOf(PreviewChannels[i]), <<" ">>)]), <<" ">>)

\* text without the spaces that stand directly before a comma or a period
RECURSIVE Squeeze(_)
Squeeze(text) ==
    IF Len(text) < 2 THEN text
    ELSE IF text[1] = " " /\ text[2] \in {",", "."} THEN Squeeze(Tail(text))
    ELSE <<text[1]>> \o Squeeze(Tail(text))

NormalizedText ==
    Join(NonEmpty([i \in 1..Len(PreviewChannels) |->
                      Strip(Squeeze(Join(WordsOf(PreviewChannels[i]), <<" ">>)))]),
         <<" ">>)

ExampleChannels ==
    <<[items |-> <<Word(Hello, ""), Punct(<<",">>)>>], [items |-> <<Word(Bye, "")>>]>>

HelloBye == Hello \o <<",", " ">> \o Bye

\* C20 as stated: the channel-mode preview is the words of each channel (a
\* WORD starts a word, a PUNCTUATION is appended to the latest word or stands
\* alone) joined by single spaces, the channel texts joined by single spaces.
C20_ChannelPreviewAsStated ==
    (ChannelCompiled /\ Len(StatedText) <= preview.limit) =>
        preview.text = StatedText

\* C20 amended: every WORD starts a word and every PUNCTUATION is appended
\* without a space to the latest word of its channel (or starts one when the
\* channel has none); the words of a channel are joined by single spaces, the
\* space before a comma or period is removed and the text stripped; the
\* non-empty channel texts are joined by single spaces in channel order, and
\* the result is stripped and cut to the length limit.  The channels
\* [WORD "hello", PUNCTUATION ","] and [WORD "bye"] give "hello, bye".
C20_ChannelPreview ==
    ChannelCompiled =>
        /\ \A i \in 1..Len(PreviewChannels) :
              LET items == PreviewChannels[i].items
                  words == WordsOf(PreviewChannels[i])
              IN /\ Len(words) = Cardinality(Starters(items))
                 /\ Join(words, <<>>) = Contents(items)
                 /\ \A k \in 1..Len(words) :
                       \E j \in Starters(items) :
                          StartsWith(words[k], items[j].content)
        /\ preview.text = Truncate(Strip(NormalizedText), preview.limit)
        /\ (PreviewChannels = ExampleChannels /\ preview.limit >= Len(HelloBye)) =>
              preview.text = HelloBye

C20_Witness ==
    /\ ChannelCompiled
    /\ PreviewChannels = ExampleChannels
    /\ preview.limit = DEFAULT_PREVIEW_LEN
    /\ preview.text = HelloBye

Compiled == preview.state = "compiled"

\* the positions of the items that have an end time
TimedItems == {i \in 1..Len(preview.results.items) : preview.results.items[i].end_time # <<>>}

LastTimed == CHOOSE i \in TimedItems : \A j \in TimedItems : j <= i

\* C21: the duration is the end time of the last item that has one, whatever
\* items without one follow it; it is 0 when no item has an end time and when
\* that end time cannot be parsed; a duration is returned for every result.
\* (Durations are counted in tenths of a second: 12.4 s is 124.)
C21_Duration ==
    Compiled =>
        LET items == preview.results.items
        IN /\ TimedItems = {} => preview.duration = 0
           /\ TimedItems # {} =>
                 /\ FloatParse(items[LastTimed].end_time).ok =>
                       preview.duration = FloatParse(items[LastTimed].end_time).val
                 /\ ~FloatParse(items[LastTimed].end_time).ok => preview.duration = 0
           /\ (/\ TimedItems # {}
               /\ items[LastTimed].end_time = <<"1", "2", ".", "4">>) =>
                 preview.duration = 124

\* the last item with an end time, 12.4, comes after an item with another end
\* time and before one without
C21_Witness ==
    /\ Compiled
    /\ Len(preview.results.items) = 3
    /\ TimedItems = {1, 2}
    /\ preview.results.items[1].end_time = <<"3">>
    /\ preview.results.items[2].end_time = <<"1", "2", ".", "4">>
    /\ preview.duration = 124

\* C22: in every mode (plain, channel, diarization) and for every length limit
\* the preview text is at most as long as the limit.
C22_PreviewLength ==
    Compiled =>
        /\ Len(preview.text) <= preview.limit
        /\ preview.limit = 0 => preview.text = <<>>

\* a diarization preview that the limit has cut
C22_Witness ==
    /\ Compiled /\ preview.mode = "diarization" /\ preview.results.speaker_labels.present
    /\ preview.limit = 4 /\ Len(preview.text) = 4
    /\ Len(build_transcription_preview(preview.results, preview.mode, DEFAULT_PREVIEW_LEN)) > 4

\* the offsets of the widest window
MaxWindow == (0 - MAX_TIME_WINDOW_MINUTES)..MAX_TIME_WINDOW_MINUTES

\* the keys that are candidates of a search attempt with the anchor
CandidateKeys(anchor) ==
    {RecordingKey(Prefix, InitialContactId, anchor + offset) : offset \in MaxWindow}

\* C23: every search attempt of an invocation uses the same anchor time, so the
\* second attempt probes the candidate keys of the first, and a recording within
\* the widest window of the first attempt's anchor is a candidate of every later
\* attempt.
C23_FixedAnchor ==
    \A i \in 1..Len(proc.anchors) :
        /\ proc.anchors[i] = proc.anchors[1]
        /\ CandidateKeys(proc.anchors[i]) = CandidateKeys(proc.anchors[1])

\* existence checks of the windows wider than W, when none of them had a hit
ProbesBefore(W) == ProbesPerSearch - W * (W + 2)

\* the place of an offset in the probe order 0, -1, +1, -2, +2, ...
ProbePlace(offset) ==
    IF offset = 0 THEN 1 ELSE IF offset < 0 THEN 2 * Abs(offset) ELSE 2 * offset + 1

WindowDelays == MAX_TIME_WINDOW_MINUTES - 1

\* the search is under way, or has just ended without a location
InSearch ==
    \/ proc.pc \in {"probe", "window_sleep", "backoff"}
    \/ proc.cause = "HeadError"
    \/ (Done /\ proc.outcome.statusCode = 404)

\* C24: a search attempt visits the windows W = 5, 4, 3, 2, 1 in this order,
\* probes each offset of -W..W once per window, issues no probe after a hit,
\* so at most 35 per attempt and 70 per invocation, and waits the retry delay
\* between windows only, not after W = 1.
C24_WindowSchedule ==
    /\ proc.attempt >= 1 =>
          /\ proc.window \in 1..MAX_TIME_WINDOW_MINUTES
          /\ proc.calls.head_object <= proc.attempt * ProbesPerSearch
          /\ proc.calls.head_object <= SearchAttempts * ProbesPerSearch
          /\ proc.sleeps.window <= proc.attempt * WindowDelays
    /\ InSearch =>
          /\ \A i \in 1..Len(proc.probes) :
                /\ proc.probes[i] \in (0 - proc.window)..proc.window
                /\ \A j \in 1..Len(proc.probes) : i # j => proc.probes[i] # proc.probes[j]
          /\ proc.calls.head_object =
                (proc.attempt - 1) * ProbesPerSearch + ProbesBefore(proc.window)
                   + Len(proc.probes)
          /\ proc.sleeps.window =
                (proc.attempt - 1) * WindowDelays
                   + (MAX_TIME_WINDOW_MINUTES - proc.window)
    /\ proc.pc = "window_sleep" =>
          (proc.window > 1 /\ Len(proc.probes) = 2 * proc.window + 1)
    /\ (proc.pc = "backoff" \/ (Done /\ proc.outcome.statusCode = 404)) =>
          (proc.window = 1 /\ Len(proc.probes) = 3)
    /\ proc.found =>
          /\ proc.calls.head_object =
                (proc.attempt - 1) * ProbesPerSearch + ProbesBefore(proc.window)
                   + ProbePlace(proc.location.offset_minutes)
          /\ proc.sleeps.window =
                (proc.attempt - 1) * WindowDelays
                   + (MAX_TIME_WINDOW_MINUTES - proc.window)

\* a hit in the window W = 2 of the second attempt, with the job started after it
C24_Witness ==
    /\ proc.found /\ proc.pc = "poll"
    /\ proc.attempt = 2 /\ proc.window = 2
    /\ proc.location.offset_minutes = 1
    /\ proc.calls.head_object = 35 + 11 + 9 + 7 + 3
    /\ proc.sleeps.window = 4 + 3

\* the offsets of the widest window whose objects exist from the start of the
\* running attempt on (objects are never removed during an invocation)
ExistingOffsets == {offset \in MaxWindow : proc.anchor + offset \in proc.existing}

InFirstWindow == proc.pc = "probe" /\ proc.window = MAX_TIME_WINDOW_MINUTES

ChecksOfAttempt == proc.calls.head_object - (proc.attempt - 1) * ProbesPerSearch

\* the attempt returned a location from its first window, nearest offset first
ReturnedNearest ==
    /\ proc.found
    /\ proc.window = MAX_TIME_WINDOW_MINUTES
    /\ ChecksOfAttempt <= 2 * MAX_TIME_WINDOW_MINUTES + 1
    /\ \A offset \in ExistingOffsets :
          Abs(proc.location.offset_minutes) <= Abs(offset)
    /\ proc.location.offset_minutes \in ExistingOffsets =>
          ChecksOfAttempt = ProbePlace(proc.location.offset_minutes)
    /\ proc.location.key =
          RecordingKey(Prefix, InitialContactId, proc.anchor + proc.location.offset_minutes)
    /\ proc.location.timestamp = TimeStamp(proc.anchor + proc.location.offset_minutes)

\* C25 as stated: with an object within 5 minutes of the anchor throughout the
\* attempt, the attempt returns a location during its first window.
C25_LocatorCompleteAsStated ==
    (proc.attempt >= 1 /\ ExistingOffsets # {}) => (InFirstWindow \/ ReturnedNearest)

\* C25: if throughout a search attempt an object exists at an offset within 5
\* minutes of the anchor, the attempt never returns NotFound and never leaves
\* its first window: either an existence check fails with an error other than
\* "does not exist" and the attempt raises, or it returns a location after at
\* most 11 checks, whose offset has the smallest absolute value among the
\* offsets whose objects exist and whose key and timestamp are those of
\* anchor + offset.
C25_LocatorComplete ==
    (proc.attempt >= 1 /\ ExistingOffsets # {}) =>
        \/ InFirstWindow
        \/ ReturnedNearest
        \/ /\ proc.cause = "HeadError"
           /\ proc.window = MAX_TIME_WINDOW_MINUTES
           /\ ChecksOfAttempt <= 2 * MAX_TIME_WINDOW_MINUTES + 1

\* objects at the offsets -5 and +2: +2 is returned by the fifth check
C25_Witness ==
    /\ proc.found
    /\ ExistingOffsets = {0 - 5, 2}
    /\ proc.location.offset_minutes = 2
    /\ proc.calls.head_object = 5

\* wait_for_transcription has returned a job to handle_voicemail_processing
JobReturned ==
    \/ proc.pc \in {"fetch", "sign", "send"}
    \/ /\ Done
       /\ proc.calls.get_transcription_job > 0
       /\ proc.cause \notin {"StatusError", "TimedOut"}

\* C26: wait_for_transcription returns a job only when the status it observed
\* is COMPLETED or FAILED, and at the first status query that observes one of
\* them (every query before it was followed by one sleep); it issues at most
\* 200 status queries, and when it times out the 200th sleep is not followed
\* by another query.
C26_PollBudget ==
    /\ proc.calls.get_transcription_job <= MaxPolls
    /\ JobReturned =>
          /\ proc.job_status \in {"COMPLETED", "FAILED"}
          /\ proc.calls.get_transcription_job = proc.sleeps.poll + 1
    /\ (proc.pc = "poll" /\ proc.calls.get_transcription_job > 0) =>
          /\ proc.job_status \in JobStatuses \ {"COMPLETED", "FAILED"}
          /\ proc.calls.get_transcription_job = proc.sleeps.poll
          /\ proc.sleeps.poll < MaxPolls
    /\ proc.cause = "TimedOut" =>
          /\ proc.job_status \in JobStatuses \ {"COMPLETED", "FAILED"}
          /\ proc.calls.get_transcription_job = MaxPolls
          /\ proc.sleeps.poll = MaxPolls

\* the job is returned FAILED by the last query of the budget
C26_Witness ==
    /\ JobReturned
    /\ proc.job_status = "FAILED"
    /\ proc.calls.get_transcription_job = MaxPolls
    /\ proc.sleeps.poll = MaxPolls - 1

\* a parameter of the request is malformed: the path has no bucket and key,
\* expires or signature is missing, expires is no integer, or the signature is
\* no ASCII string (a hexadecimal digest is one)
MalformedParameters(e) ==
    \/ ~PathSplits(e)
    \/ ~ParamsGiven(e)
    \/ ~IntParse(ReqExpires(e)).ok
    \/ e.query.signature.val.kind = "nonascii"

\* C27: every link-resolution request is answered with one of the statuses
\* 302, 400, 403, 404 and 500, whatever the collaborators do, and a request
\* with malformed parameters is answered with a 4xx status (here: whenever the
\* signing secret is configured).
C27_LinkHandlerTotal ==
    Answered =>
        /\ Status \in {302, 400, 403, 404, 500}
        /\ (MalformedParameters(inflight.event) /\ inflight.secret # "") =>
              Status \in {400, 403, 404}

\* a result has been compiled in diarization mode
DiarizationCompiled == preview.state = "compiled" /\ preview.mode = "diarization"

\* the list under which the words of the active speaker are accumulated
ActiveSpeaker(current_speaker) == IF current_speaker = "" THEN "spk_?" ELSE current_speaker

\* the words of each speaker when a punctuation token is attached whenever the
\* active speaker has an accumulated word
RECURSIVE AttachedWords(_, _, _, _)
AttachedWords(items, segments, current_speaker, per_speaker) ==
    IF items = <<>> THEN per_speaker
    ELSE LET item == Head(items)
         IN IF item.type = "pronunciation"
            THEN LET speaker == SpeakerMapGet(segments, item.start_time, current_speaker)
                 IN AttachedWords(Tail(items), segments, speaker,
                                  AppendWord(per_speaker, ActiveSpeaker(speaker), item.content))
            ELSE IF /\ item.type = "punctuation"
                    /\ HasSpeaker(per_speaker, ActiveSpeaker(current_speaker))
            THEN AttachedWords(Tail(items), segments, current_speaker,
                               AppendToLast(per_speaker, ActiveSpeaker(current_speaker),
                                            item.content))
            ELSE AttachedWords(Tail(items), segments, current_speaker, per_speaker)

\* C28: in diarization mode a punctuation token is attached to the latest word
\* of the active speaker whenever that speaker has an accumulated word, also
\* when the speaker of the word was resolved by fallback or not at all, and is
\* dropped when the active speaker has no word yet.
C28_DiarizationPunctuation ==
    DiarizationCompiled =>
        LET segments == preview.results.speaker_labels.val.segments
        IN /\ SpeakerWords(preview.results.items, segments, "", <<>>)
                 = AttachedWords(preview.results.items, segments, "", <<>>)
           /\ preview.text =
                 Truncate(Strip(Join(SpeakerTexts(AttachedWords(preview.results.items,
                                                                segments, "", <<>>)),
                                     <<" ">>)), preview.limit)

----------------------------------------------------------------------------
(* lambda_handler: an invocation is a link-resolution request or a          *)
(* recording-processing event (SpecCore)                                    *)

InitCore == InitLink \/ InitProc

NextCore == (proc = ProcOff /\ NextLink) \/ NextProc

SpecCore == InitCore /\ [][NextCore]_vars

\* the object-store operations of the link handler and its signature check
LinkOperations == {"hmac", "head_object", "generate_presigned_url"}

\* the calls of the processing handler: head_object and the read of the
\* transcription result are its object-store operations
ProcOperations ==
    {"head_object", "start_transcription_job", "get_transcription_job", "fetch", "send_email"}

OperationsIssued ==
    /\ inflight # Idle =>
          \A i \in 1..Len(inflight.reply.calls) : inflight.reply.calls[i] \in LinkOperations
    /\ proc # ProcOff => DOMAIN proc.calls = ProcOperations

\* C29: no step of the link handler or of the processing handler, on any
\* outcome, changes the contents of the object store, and the object-store
\* operations they issue are existence checks, the read of a transcription
\* result and the issuance of a temporary access URL.
C29_StoreReadOnly ==
    [][(inflight' # inflight \/ proc' # proc) => (store' = store /\ OperationsIssued')]_vars

\* a processing invocation has ended 200 and the recording it found is still there
C29_Witness ==
    /\ Done /\ proc.outcome.statusCode = 200
    /\ proc.calls.head_object > 0 /\ proc.calls.fetch = 1
    /\ <<Bucket, proc.location.key>> \in store

====
